---------------------------- MODULE Spec2Model ----------------------------
(***************************************************************************)
(* Model of ts_ess: the SEL temperature line decoder (SelTemperature,      *)
(* sel_temperature_reader.py) and the instrument read loop (EssInstrument, *)
(* ess_instrument_object.py).                                              *)
(*                                                                         *)
(* Text is modelled as sequences of one-character strings, so that         *)
(* slicing, splitting, formatting and float parsing are computed the way   *)
(* the Python code computes them.  A Python float is modelled by the exact *)
(* decimal it was parsed from: Float(m, e) stands for m * 10^-e with the   *)
(* trailing zeros of the fraction removed (texts of this length map to     *)
(* distinct doubles exactly when they denote distinct decimals).           *)
(***************************************************************************)
EXTENDS Integers, Sequences, FiniteSets, TLC

(***************************************************************************)
(* Bounds of the model.                                                    *)
(***************************************************************************)
\* Number of channels the decoder is constructed with.
Channels == 3
\* Number of start() calls an execution makes (one task is created by each).
MaxStarts == 3
\* Largest number of channels the line size is computed for.
MaxChannelCount == 8

(***************************************************************************)
(* Program constants (sel_temperature_reader.py).                          *)
(***************************************************************************)
\* Baud rate, and the channel read time in thousandths of a second (0.167 s).
BAUDRATE == 19200
CH_READ_TIME == 167
PREAMBLE_SIZE == 4
VALUE_SIZE == 9
DELIMITER == <<",">>
CR == "\r"
LF == "\n"
TERMINATOR == <<CR, LF>>
\* DEFAULT_VAL is the *string* "9999.9990" in the source, not a float.
DEFAULT_VAL == [kind |-> "str", text |-> <<"9", "9", "9", "9", ".", "9", "9", "9", "0">>]
SENSOR_UNCONNECTED_VAL == <<"-", "2", "0", "1", ".", "0", "0", "0", "0">>

ChannelIds == 0 .. (Channels - 1)

(***************************************************************************)
(* Python text primitives.                                                 *)
(***************************************************************************)
Min(a, b) == IF a < b THEN a ELSE b
Max(a, b) == IF a > b THEN a ELSE b

\* s[a:b] for 0 <= a, 0 <= b (Python clamps both ends to the length).
Slice(s, a, b) ==
    LET lo == Min(a, Len(s))
        hi == Min(b, Len(s))
    IN  IF hi <= lo THEN <<>> ELSE SubSeq(s, lo + 1, hi)

\* s[a:]
SliceFrom(s, a) == Slice(s, a, Len(s))

\* s[-n:]
LastN(s, n) == SliceFrom(s, Max(Len(s) - n, 0))

\* s[:-n]
DropLastN(s, n) == Slice(s, 0, Max(Len(s) - n, 0))

\* Index of the first occurrence of the one-character separator c in s, 0 if none.
FindChar(s, c) ==
    IF \E k \in 1 .. Len(s) : s[k] = c
    THEN CHOOSE k \in 1 .. Len(s) : s[k] = c /\ \A j \in 1 .. (k - 1) : s[j] # c
    ELSE 0

\* s.split(c, maxsplit) for a one-character separator and maxsplit >= 0:
\* at most maxsplit splits are made, the rest of the text stays in the last field.
RECURSIVE Split(_, _, _)
Split(s, c, maxsplit) ==
    LET k == FindChar(s, c)
    IN  IF maxsplit = 0 \/ k = 0
        THEN <<s>>
        ELSE <<SubSeq(s, 1, k - 1)>> \o Split(SubSeq(s, k + 1, Len(s)), c, maxsplit - 1)

DigitChars == <<"0", "1", "2", "3", "4", "5", "6", "7", "8", "9">>
Digits == {DigitChars[k] : k \in 1 .. 10}
DigitVal(c) == (CHOOSE k \in 1 .. 10 : DigitChars[k] = c) - 1

\* The decimal digits of n >= 0 (at least one digit).
RECURSIVE DecDigits(_)
DecDigits(n) ==
    IF n < 10 THEN <<DigitChars[n + 1]>>
    ELSE DecDigits(n \div 10) \o <<DigitChars[(n % 10) + 1]>>

\* n written with at least w digits, zero padded on the left: f"{n:0{w}d}".
ZeroPad(n, w) ==
    LET d == DecDigits(n)
    IN  [k \in 1 .. Max(w - Len(d), 0) |-> "0"] \o d

\* The number a sequence of digit characters denotes (0 for the empty sequence).
RECURSIVE DigitsValue(_)
DigitsValue(s) ==
    IF s = <<>> THEN 0
    ELSE 10 * DigitsValue(SubSeq(s, 1, Len(s) - 1)) + DigitVal(s[Len(s)])

\* A float: m * 10^-e, normalised so that equal numbers are equal records.
RECURSIVE Float(_, _)
Float(m, e) ==
    IF m = 0 THEN [kind |-> "float", m |-> 0, e |-> 0]
    ELSE IF e > 0 /\ m % 10 = 0 THEN Float(m \div 10, e - 1)
    ELSE [kind |-> "float", m |-> m, e |-> e]

\* float(s) on the characters this model uses (sign, digits, one decimal
\* point): [ok |-> FALSE] stands for ValueError.
PyFloat(s) ==
    LET signed == Len(s) > 0 /\ s[1] \in {"-", "+"}
        body   == IF signed THEN Tail(s) ELSE s
        dots   == {k \in 1 .. Len(body) : body[k] = "."}
        wellformed ==
            /\ Cardinality(dots) <= 1
            /\ \A k \in (1 .. Len(body)) \ dots : body[k] \in Digits
            /\ Len(body) > Cardinality(dots)
    IN  IF ~wellformed THEN [ok |-> FALSE, val |-> DEFAULT_VAL]
        ELSE LET dot  == IF dots = {} THEN Len(body) + 1 ELSE CHOOSE k \in dots : TRUE
                 ip   == SubSeq(body, 1, dot - 1)
                 fp   == SubSeq(body, dot + 1, Len(body))
                 mag  == DigitsValue(ip \o fp)
                 sgn  == IF signed /\ s[1] = "-" THEN -1 ELSE 1
             IN  [ok |-> TRUE, val |-> Float(sgn * mag, Len(fp))]


(***************************************************************************)
(* The instrument's wire format, as the mock sensor writes it              *)
(* (mock_temperature_sensor.py).                                           *)
(***************************************************************************)
\* f"{temp:09.4f}" for temp = tt / 10^4: sign, integer part, point, four
\* decimals, zero padded after the sign to nine characters (never cut).
FormatValue(tt) ==
    LET a    == IF tt < 0 THEN -tt ELSE tt
        sign == IF tt < 0 THEN <<"-">> ELSE <<>>
        core == DecDigits(a \div 10000) \o <<".">> \o ZeroPad(a % 10000, 4)
        pad  == Max(VALUE_SIZE - Len(sign) - Len(core), 0)
    IN  sign \o [k \in 1 .. pad |-> "0"] \o core

\* f"C{n:02d}=": _preamble_str[i] is Preamble(i), _old_preamble_str[i] is Preamble(i + 1).
Preamble(n) == <<"C">> \o ZeroPad(n, 2) \o <<"=">>
preamble_str(i) == Preamble(i)
old_preamble_str(i) == Preamble(i + 1)

\* MockTemperatureSensor.format_temperature for channel i holding tt / 10^4.
format_temperature(i, count_offset, tt) ==
    Preamble(i + count_offset) \o FormatValue(tt)
        \o (IF i = Channels - 1 THEN TERMINATOR ELSE DELIMITER)

\* MockTemperatureSensor.readline: the fields of channels 0 .. Channels-1 in order.
RECURSIVE MockLine(_, _, _)
MockLine(vs, count_offset, i) ==
    IF i = Channels THEN <<>>
    ELSE format_temperature(i, count_offset, vs[i]) \o MockLine(vs, count_offset, i + 1)
readline(vs, count_offset) == MockLine(vs, count_offset, 0)

\* The line size without the terminator's length.
read_line_size_unterminated(channels) ==
    channels * (PREAMBLE_SIZE + VALUE_SIZE + Len(DELIMITER)) - Len(DELIMITER)

\* The line size __init__ computes for a number of channels (lines 143-147).
read_line_size_for(channels) ==
    channels * (PREAMBLE_SIZE + VALUE_SIZE + Len(DELIMITER))
        - Len(DELIMITER) + Len(TERMINATOR)

\* _read_line_size, computed in __init__.
read_line_size == read_line_size_for(Channels)

(***************************************************************************)
(* What the Transport's readline() may return: the lines the instrument    *)
(* writes for the channel values of Temps under either channel numbering,  *)
(* each also with one deviation (serial noise), and transport errors.      *)
(***************************************************************************)
\* Channel values in units of 10^-4 degrees: 18.1234 and -5.5.
Temps == {181234, -55000}
ValueVectors == [ChannelIds -> Temps]

UNPARSEABLE_VAL == <<"0", "0", "x", "8", ".", "1", "2", "3", "4">>
OddTexts == <<SENSOR_UNCONNECTED_VAL, UNPARSEABLE_VAL>>

\* s with the characters from position pos (0-based) on overwritten by t.
ReplaceAt(s, pos, t) == Slice(s, 0, pos) \o t \o SliceFrom(s, pos + Len(t))

FieldStart(k) == k * (PREAMBLE_SIZE + VALUE_SIZE + Len(DELIMITER))

Deviations ==
    {<<"none", 0, 0>>, <<"terminator", 0, 0>>, <<"short", 0, 0>>}
        \cup {<<"value", k, t>> : k \in ChannelIds, t \in 1 .. Len(OddTexts)}
        \cup {<<"preamble", k, 0>> : k \in ChannelIds}
        \cup {<<"delimiter", k, 0>> : k \in 0 .. (Channels - 2)}

Deviate(line, dev) ==
    CASE dev[1] = "none" -> line
      [] dev[1] = "terminator" -> DropLastN(line, Len(TERMINATOR)) \o <<LF, LF>>
      [] dev[1] = "short" ->
            DropLastN(line, Len(TERMINATOR) + 1) \o TERMINATOR
      [] dev[1] = "value" ->
            ReplaceAt(line, FieldStart(dev[2]) + PREAMBLE_SIZE, OddTexts[dev[3]])
      [] dev[1] = "preamble" -> ReplaceAt(line, FieldStart(dev[2]), <<"X">>)
      [] dev[1] = "delimiter" ->
            ReplaceAt(line, FieldStart(dev[2]) + PREAMBLE_SIZE + VALUE_SIZE, <<";">>)

CountOffsets == {0, 1}

\* The lines that are deviated: those of equal values in every channel.
DeviatedVectors == {[i \in ChannelIds |-> t] : t \in Temps}

RawLines ==
    {readline(vs, off) : vs \in ValueVectors, off \in CountOffsets}
        \cup {Deviate(readline(vs, off), dev) :
                 vs \in DeviatedVectors, off \in CountOffsets, dev \in Deviations}

TRANSPORT_ERROR == "TIMEOUT"

(***************************************************************************)
(* SelTemperature.read (sel_temperature_reader.py).                        *)
(***************************************************************************)
\* The statuses read() reports; the source appends ": {ser_line}" to each.
ERR_CONVERT == "Temperature data error. Could not convert value(s) to float"
ERR_CHANNEL == "Malformed response. Channel preamble or channel data incorrect"
ERR_LINE == "Malformed response. Terminator or line size incorrect"

\* _test_val: None (preamble differs) and False (ValueError) are both falsy.
test_val(preamble, sensor_str) ==
    IF Slice(sensor_str, 0, PREAMBLE_SIZE) = preamble
    THEN PyFloat(Slice(sensor_str, PREAMBLE_SIZE,
                       PREAMBLE_SIZE + VALUE_SIZE + Len(DELIMITER) - 1)).ok
    ELSE FALSE

\* accepted without the test of the legacy preamble.
accepted_current_only(i, field) == test_val(preamble_str(i), field)

\* The test of lines 255-257: either channel numbering is accepted.
accepted(i, field) ==
    test_val(preamble_str(i), field) \/ test_val(old_preamble_str(i), field)

\* connected without the comparison with the sensor-unconnected text.
connected_always(field) == TRUE

\* The test of line 258.
connected(field) == SliceFrom(field, PREAMBLE_SIZE) # SENSOR_UNCONNECTED_VAL

\* convert with the value text cut one character short.
convert_short(field) ==
    PyFloat(Slice(field, PREAMBLE_SIZE, PREAMBLE_SIZE + VALUE_SIZE - 1))

\* The conversion of line 260: float(temps[i][PREAMBLE_SIZE:]).
convert(field) == PyFloat(SliceFrom(field, PREAMBLE_SIZE))

\* The test of lines 248-251.
framed(ser_line) ==
    /\ LastN(ser_line, Len(TERMINATOR)) = TERMINATOR
    /\ Len(ser_line) = read_line_size

\* Lines 252-253: the fields of a framed line.
split_line(ser_line) ==
    Split(DropLastN(ser_line, Len(TERMINATOR)), DELIMITER[1], Channels - 1)

\* Everything read() computes from the pair readline() returned alone (the
\* framing test, the fields, and per field the tests and the conversion of
\* lines 255-260), computed once per pair; what read() then does with the
\* decoder's state is ReadChannel below.
Received(err0, ser_line) ==
    LET temps == IF err0 = "OK" /\ framed(ser_line) THEN split_line(ser_line) ELSE <<>>
    IN  [err |-> err0,
         ser_line |-> ser_line,
         framed |-> framed(ser_line),
         checks |-> [k \in 1 .. Len(temps) |->
                        [accepted |-> accepted(k - 1, temps[k]),
                         connected |-> connected(temps[k]),
                         converted |-> convert(temps[k])]]]

\* What readline() may return, with what read() computes from it.
ReadlineResults ==
    {Received("OK", l) : l \in RawLines}
        \cup {Received(TRANSPORT_ERROR, <<>>)}
        \cup {Received(TRANSPORT_ERROR, readline(vs, 0)) : vs \in ValueVectors}

\* ReadChannel with line 268 moved into the branch of an accepted field: a
\* field that is not accepted leaves temperature[i] as it was.
ReadChannel_keep(st, checks, i) ==
    IF i >= Len(checks) THEN [st EXCEPT !.raised = TRUE]
    ELSE
    LET c    == checks[i + 1]
        tmp1 == IF c.accepted /\ c.connected /\ c.converted.ok
                THEN [st.tmp EXCEPT ![i] = c.converted.val]
                ELSE st.tmp
        err1 == IF c.accepted
                THEN (IF c.connected /\ ~c.converted.ok THEN ERR_CONVERT ELSE st.err)
                ELSE ERR_CHANNEL
    IN  [temperature |-> IF c.accepted
                         THEN [st.temperature EXCEPT ![i] = tmp1[i]]
                         ELSE st.temperature,
         tmp |-> tmp1, err |-> err1, raised |-> FALSE]

\* One pass of the loop body of lines 254-268 for channel i.  st holds
\* temperature, tmp (_tmp_temperature), err and raised; temps[i] of a line
\* with fewer than i + 1 fields raises IndexError, which ends read().
ReadChannel(st, checks, i) ==
    IF i >= Len(checks) THEN [st EXCEPT !.raised = TRUE]
    ELSE
    LET c    == checks[i + 1]
        tmp1 == IF c.accepted /\ c.connected /\ c.converted.ok
                THEN [st.tmp EXCEPT ![i] = c.converted.val]
                ELSE st.tmp
        err1 == IF c.accepted
                THEN (IF c.connected /\ ~c.converted.ok THEN ERR_CONVERT ELSE st.err)
                ELSE ERR_CHANNEL
    IN  [temperature |-> [st.temperature EXCEPT ![i] = tmp1[i]],
         tmp |-> tmp1, err |-> err1, raised |-> FALSE]

RECURSIVE ReadChannels(_, _, _)
ReadChannels(st, checks, i) ==
    IF i = Channels \/ st.raised THEN st
    ELSE ReadChannels(ReadChannel(st, checks, i), checks, i + 1)

\* Decode with the persisted values overwritten by the temporary buffer on
\* a line of wrong length or terminator.
Decode_populate(temperature0, tmp0, res) ==
    LET st0 == [temperature |-> temperature0, tmp |-> tmp0, err |-> res.err,
                raised |-> FALSE]
    IN  IF res.err # "OK" THEN st0
        ELSE IF res.framed THEN ReadChannels(st0, res.checks, 0)
        ELSE [st0 EXCEPT !.err = ERR_LINE, !.temperature = tmp0]

\* Lines 247-272: what read() does with the pair readline() returned.
Decode(temperature0, tmp0, res) ==
    LET st0 == [temperature |-> temperature0, tmp |-> tmp0, err |-> res.err,
                raised |-> FALSE]
    IN  IF res.err # "OK" THEN st0
        ELSE IF res.framed THEN ReadChannels(st0, res.checks, 0)
        ELSE [st0 EXCEPT !.err = ERR_LINE]

\* Lines 274-278: the output list; time.time() is kept as the token "time".
MakeOutput(err1, temperature1) ==
    <<"time", err1>> \o [k \in 1 .. Channels |-> temperature1[k - 1]]

\* Lines 235-236: every entry of the temporary buffer is reset.
ResetTmp == [i \in ChannelIds |-> DEFAULT_VAL]

(***************************************************************************)
(* State.                                                                  *)
(***************************************************************************)
VARIABLES
    temperature,      \* SelTemperature.temperature: the persisted channel values
    tmp_temperature,  \* SelTemperature._tmp_temperature
    output,           \* SelTemperature.output: [time, err, value per channel]
    last_read,        \* the pair the last finished read() got from readline(),
                      \* and whether that read() raised
    enabled,          \* EssInstrument._enabled
    telemetry_loop,   \* EssInstrument.telemetry_loop: a task, or NoTask (None)
    pc,               \* where each _run() task is
    must_cancel,      \* tasks with a CancelledError to be delivered
    comport_open,     \* the Transport is open
    stop_pc,          \* where the stop() call in progress is, if any
    stopped,          \* a stop() call has returned and no start() followed it
    readline_busy,    \* tasks whose readline() runs in a worker thread
    sel_objects,      \* the SelTemperature objects constructed, in order
    ess_objects,      \* the EssInstrument objects constructed, in order
    comport_config,   \* the Transport's line_size, terminator, baudrate, read_timeout
    started,          \* tasks whose await self._reader.start() has returned
    stop_entry        \* the last stop() call: the state it was called in, and
                      \* whether it raised

reader_vars == <<temperature, tmp_temperature, output, last_read>>
loop_vars == <<enabled, telemetry_loop, pc, must_cancel, comport_open, stop_pc,
               stopped, readline_busy, comport_config, started, stop_entry>>
binding_vars == <<sel_objects, ess_objects>>
vars == <<temperature, tmp_temperature, output, last_read, enabled,
          telemetry_loop, pc, must_cancel, comport_open, stop_pc, stopped,
          readline_busy, sel_objects, ess_objects, comport_config, started,
          stop_entry>>

Tasks == 1 .. MaxStarts
NoTask == 0
\* A task that has been created and has not ended.
Live == {"new", "opening", "reading", "sink"}

\* The state after SelTemperature.__init__ and EssInstrument.__init__.
Init ==
    /\ temperature = [i \in ChannelIds |-> DEFAULT_VAL]
    /\ tmp_temperature = [i \in ChannelIds |-> DEFAULT_VAL]
    /\ output = <<>>
    /\ last_read = [err |-> "", ser_line |-> <<>>, raised |-> FALSE]
    /\ enabled = FALSE
    /\ telemetry_loop = NoTask
    /\ pc = [t \in Tasks |-> "none"]
    /\ must_cancel = [t \in Tasks |-> FALSE]
    /\ comport_open = FALSE
    /\ stop_pc = "idle"
    /\ stopped = FALSE
    /\ readline_busy = {}
    /\ sel_objects = <<>>
    /\ ess_objects = <<>>
    /\ comport_config = [configured |-> FALSE]
    /\ started = {}
    /\ stop_entry = [called |-> FALSE]

(***************************************************************************)
(* SelTemperature.read, from the return of readline() (line 245) to its    *)
(* end, for the temporary buffer as it stands when readline() returns.     *)
(***************************************************************************)
ReadTail(tmp0, res) ==
    LET r == Decode(temperature, tmp0, res)
    IN  /\ temperature' = r.temperature
        /\ tmp_temperature' = r.tmp
        /\ output' = IF r.raised THEN output ELSE MakeOutput(r.err, r.temperature)
        /\ last_read' = [err |-> res.err, ser_line |-> res.ser_line,
                         raised |-> r.raised]

(***************************************************************************)
(* The decoder driven directly, one read() after the other, as             *)
(* tests/test_sel_temperature_reader.py drives it.                         *)
(***************************************************************************)
Read(res) ==
    /\ ReadTail(ResetTmp, res)
    /\ UNCHANGED <<loop_vars, binding_vars>>

NextReader == \E res \in ReadlineResults : Read(res)

SpecReader == Init /\ [][NextReader]_vars

(***************************************************************************)
(* EssInstrument (ess_instrument_object.py).  Coroutines run on one event  *)
(* loop: a step of the model is what a coroutine does between two points   *)
(* where it can be suspended (comport.open(), the readline() handed to a   *)
(* worker thread, the callback, comport.close()).                          *)
(***************************************************************************)
\* What readline() returns to the read loop: a line as written, lines with
\* a wrong terminator, a bad value and a lost delimiter, a transport error.
LoopVector == [i \in ChannelIds |-> 181234]
LoopResults ==
    {Received("OK", Deviate(readline(LoopVector, 0), dev)) :
        dev \in {<<"none", 0, 0>>, <<"terminator", 0, 0>>, <<"value", 0, 2>>,
                 <<"delimiter", 0, 0>>}}
        \cup {Received(TRANSPORT_ERROR, <<>>)}

\* start(): no test of the state; _enabled is set and a new task is created
\* for _run(), which replaces telemetry_loop.
Start ==
    /\ \E t \in Tasks :
        /\ pc[t] = "none"
        /\ \A u \in Tasks : u < t => pc[u] # "none"
        /\ pc' = [pc EXCEPT ![t] = "new"]
        /\ telemetry_loop' = t
    /\ enabled' = TRUE
    /\ stopped' = FALSE
    /\ UNCHANGED <<binding_vars, comport_config, started, stop_entry,
                   reader_vars, must_cancel, comport_open, stop_pc, readline_busy>>

\* What is recorded of a stop() call: the state it is called in, and
\* whether it raised.
StopEntry(raised) ==
    [called |-> TRUE, raised |-> raised, enabled |-> enabled,
     comport_open |-> comport_open, temperature |-> temperature]

\* stop() before any start(): telemetry_loop is None and line 107 raises
\* AttributeError, before the Transport is closed and _enabled is assigned.
StopFails ==
    /\ stop_pc = "idle"
    /\ telemetry_loop = NoTask
    /\ stop_entry' = StopEntry(TRUE)
    /\ UNCHANGED <<binding_vars, reader_vars, enabled, telemetry_loop, pc,
                   must_cancel, comport_open, stop_pc, stopped, readline_busy,
                   comport_config, started>>

\* stop(), lines 105-108 up to the suspension in comport.close():
\* telemetry_loop.cancel() asks for a CancelledError in the task, and has no
\* effect on a task that has ended.
StopCall ==
    /\ stop_pc = "idle"
    /\ telemetry_loop # NoTask
    /\ must_cancel' = [must_cancel EXCEPT
                          ![telemetry_loop] = pc[telemetry_loop] \in Live]
    /\ stop_pc' = "closing"
    /\ stop_entry' = StopEntry(FALSE)
    /\ UNCHANGED <<binding_vars, comport_config, started, reader_vars, enabled,
                   telemetry_loop, pc, comport_open, stopped, readline_busy>>

\* stop(), from the return of comport.close() to its end (lines 108-109).
StopReturn ==
    /\ stop_pc = "closing"
    /\ comport_open' = FALSE
    /\ enabled' = FALSE
    /\ stop_pc' = "idle"
    /\ stopped' = TRUE
    /\ UNCHANGED <<binding_vars, comport_config, started, stop_entry,
                   reader_vars, telemetry_loop, pc, must_cancel, readline_busy>>

\* _run(), lines 117-119 up to the suspension in comport.open().
RunBegin(t) ==
    /\ pc[t] = "new"
    /\ ~must_cancel[t]
    /\ pc' = [pc EXCEPT ![t] = "opening"]
    /\ UNCHANGED <<binding_vars, comport_config, started, stop_entry,
                   reader_vars, enabled, telemetry_loop, must_cancel,
                   comport_open, stop_pc, stopped, readline_busy>>

\* The test of line 120 and, when it holds, read() up to the suspension of
\* line 245: the temporary buffer is reset and readline() is handed to a
\* worker thread.
LoopTest(t) ==
    IF enabled
    THEN /\ pc' = [pc EXCEPT ![t] = "reading"]
         /\ tmp_temperature' = ResetTmp
         /\ readline_busy' = readline_busy \cup {t}
    ELSE /\ pc' = [pc EXCEPT ![t] = "done"]
         /\ UNCHANGED <<tmp_temperature, readline_busy>>

\* SelTemperature.start() from the return of comport.open() (lines 176-180),
\* then the loop test.
OpenDone(t) ==
    /\ pc[t] = "opening"
    /\ ~must_cancel[t]
    /\ comport_open' = TRUE
    /\ comport_config' = [configured |-> TRUE,
                          line_size |-> read_line_size,
                          terminator |-> TERMINATOR,
                          baudrate |-> BAUDRATE,
                          read_timeout |-> (Channels + 1) * CH_READ_TIME]
    /\ started' = started \cup {t}
    /\ LoopTest(t)
    /\ UNCHANGED <<binding_vars, stop_entry, temperature, output, last_read,
                   enabled, telemetry_loop, must_cancel, stop_pc, stopped>>

\* readline() has returned res: the rest of read(), then the callback is
\* called with the output (line 124); an IndexError raised by read() ends
\* the task.
ReadDone(t, res) ==
    /\ pc[t] = "reading"
    /\ ~must_cancel[t]
    /\ ReadTail(tmp_temperature, res)
    /\ pc' = [pc EXCEPT ![t] = IF last_read'.raised THEN "failed" ELSE "sink"]
    /\ readline_busy' = readline_busy \ {t}
    /\ UNCHANGED <<binding_vars, comport_config, started, stop_entry, enabled,
                   telemetry_loop, must_cancel, comport_open, stop_pc, stopped>>

\* The callback has returned: the loop test again.
SinkReturn(t) ==
    /\ pc[t] = "sink"
    /\ ~must_cancel[t]
    /\ LoopTest(t)
    /\ UNCHANGED <<binding_vars, comport_config, started, stop_entry,
                   temperature, output, last_read, enabled, telemetry_loop,
                   must_cancel, comport_open, stop_pc, stopped>>

\* The CancelledError is delivered at the point where the task is
\* suspended (or before its first step): _run() catches nothing, the task ends.
TaskCancelled(t) ==
    /\ pc[t] \in Live
    /\ must_cancel[t]
    /\ pc' = [pc EXCEPT ![t] = "cancelled"]
    /\ must_cancel' = [must_cancel EXCEPT ![t] = FALSE]
    /\ UNCHANGED <<binding_vars, comport_config, started, stop_entry,
                   reader_vars, enabled, telemetry_loop, comport_open, stop_pc,
                   stopped, readline_busy>>

\* The worker thread of a cancelled task ends its readline(); nobody takes
\* the result.
WorkerDrain(t) ==
    /\ t \in readline_busy
    /\ pc[t] = "cancelled"
    /\ readline_busy' = readline_busy \ {t}
    /\ UNCHANGED <<binding_vars, comport_config, started, stop_entry,
                   reader_vars, enabled, telemetry_loop, pc, must_cancel,
                   comport_open, stop_pc, stopped>>

Next ==
    \/ Start
    \/ StopFails
    \/ StopCall
    \/ StopReturn
    \/ \E t \in Tasks : RunBegin(t)
    \/ \E t \in Tasks : OpenDone(t)
    \/ \E t \in Tasks : \E res \in LoopResults : ReadDone(t, res)
    \/ \E t \in Tasks : SinkReturn(t)
    \/ \E t \in Tasks : TaskCancelled(t)
    \/ \E t \in Tasks : WorkerDrain(t)

Spec == Init /\ [][Next]_vars

\* The read loop of a caller that calls start() once only, before any
\* stop(): the use the Poll Loop's contract allows.
StartOnce == telemetry_loop = NoTask /\ Start
NextStartOnce ==
    \/ StartOnce
    \/ StopFails
    \/ StopCall
    \/ StopReturn
    \/ \E t \in Tasks : RunBegin(t)
    \/ \E t \in Tasks : OpenDone(t)
    \/ \E t \in Tasks : \E res \in LoopResults : ReadDone(t, res)
    \/ \E t \in Tasks : SinkReturn(t)
    \/ \E t \in Tasks : TaskCancelled(t)
    \/ \E t \in Tasks : WorkerDrain(t)
SpecStartOnce == Init /\ [][NextStartOnce]_vars

(***************************************************************************)
(* Construction of SelTemperature and EssInstrument objects: the name and  *)
(* device registries of the two __init__ methods.                          *)
(***************************************************************************)
\* Number of objects of each class an execution constructs.
MaxObjects == 2
\* The names and the serial devices the objects are constructed with.
Names == {"ESS1", "ESS2"}
Devices == {"ttyUSB0", "ttyUSB1"}

\* SelTemperature.__init__(name, uart_device, channels): _instances and
\* _devices are set to new, empty dicts on the object under construction
\* (lines 122-123) before they are tested (lines 125-126).
SelTemperature_init(name, uart_device) ==
    LET instances0 == {}
        devices0   == {}
    IN  IF name \notin instances0
        THEN IF uart_device \notin devices0
             THEN [raised |-> FALSE,
                   name |-> name,
                   comport |-> uart_device,
                   instances |-> instances0 \cup {name},
                   devices |-> devices0 \cup {uart_device}]
             ELSE [raised |-> TRUE]
        ELSE [raised |-> TRUE]

\* EssInstrument.__init__(name, reader, callback_func): the same registries
\* (lines 47-48), tested for name and reader.comport (lines 53-54).
EssInstrument_init(name, reader, comport) ==
    LET instances0 == {}
        devices0   == {}
    IN  IF name \notin instances0
        THEN IF comport \notin devices0
             THEN [raised |-> FALSE,
                   name |-> name,
                   reader |-> reader,
                   comport |-> comport,
                   instances |-> instances0 \cup {name},
                   devices |-> devices0 \cup {comport}]
             ELSE [raised |-> TRUE]
        ELSE [raised |-> TRUE]

\* SelTemperature(name, uart_device, channels) is called; an IndexError
\* leaves no object.
SelConstruct(name, uart_device) ==
    /\ Len(sel_objects) < MaxObjects
    /\ LET o == SelTemperature_init(name, uart_device)
       IN  sel_objects' = IF o.raised THEN sel_objects ELSE Append(sel_objects, o)
    /\ UNCHANGED <<reader_vars, loop_vars, ess_objects>>

\* EssInstrument(name, reader, callback_func) is called with one of the
\* SelTemperature objects constructed so far as its reader.
EssConstruct(name, reader) ==
    /\ Len(ess_objects) < MaxObjects
    /\ reader \in 1 .. Len(sel_objects)
    /\ LET o == EssInstrument_init(name, reader, sel_objects[reader].comport)
       IN  ess_objects' = IF o.raised THEN ess_objects ELSE Append(ess_objects, o)
    /\ UNCHANGED <<reader_vars, loop_vars, sel_objects>>

NextBinding ==
    \/ \E name \in Names : \E uart_device \in Devices : SelConstruct(name, uart_device)
    \/ \E name \in Names : \E reader \in 1 .. MaxObjects : EssConstruct(name, reader)

SpecBinding == Init /\ [][NextBinding]_vars

(***************************************************************************)
(* Properties.                                                             *)
(***************************************************************************)
\* The Sample of the output list: its status and its value for channel i.
Status == output[2]
Value(i) == output[3 + i]

\* What the properties say of a line, computed from its text once per line
\* readline() may return: whether it has the expected length and the
\* terminator, and for field i of its split the preamble, the value text
\* and the number the value text denotes.
LineFacts(l) ==
    LET fs == split_line(l)
    IN  [line |-> l,
         framed |-> Len(l) = read_line_size /\ LastN(l, 2) = <<CR, LF>>,
         nfields |-> Len(fs),
         preamble |-> [k \in 1 .. Len(fs) |-> Slice(fs[k], 0, PREAMBLE_SIZE)],
         text |-> [k \in 1 .. Len(fs) |-> SliceFrom(fs[k], PREAMBLE_SIZE)],
         number |-> [k \in 1 .. Len(fs) |-> PyFloat(SliceFrom(fs[k], PREAMBLE_SIZE))]]
AllLineFacts ==
    {LineFacts(r.ser_line) : r \in ReadlineResults \cup LoopResults}
      \cup {LineFacts(<<>>)}
LastLine == CHOOSE f \in AllLineFacts : f.line = last_read.ser_line

\* The last read() got a line with transport status OK, the expected length
\* and the terminator.
LastFramed == last_read.err = "OK" /\ LastLine.framed
\* The fields of the line the last read() got.
HasField(i) == i < LastLine.nfields
FieldPreamble(i) == LastLine.preamble[i + 1]
FieldText(i) == LastLine.text[i + 1]
FieldNumber(i) == LastLine.number[i + 1]

\* Field i carries the current preamble and a parseable value that is not
\* the sensor-unconnected text.
ValidCurrentField(i) ==
    /\ HasField(i)
    /\ FieldPreamble(i) = Preamble(i)
    /\ FieldNumber(i).ok
    /\ FieldText(i) # SENSOR_UNCONNECTED_VAL

\* The lines written from each vector of channel values with the current
\* preambles, with the floats the values are.
CurrentLines ==
    {<<readline(vs, 0), [i \in ChannelIds |-> Float(vs[i], 4)]>> : vs \in ValueVectors}

\* C1: after read() of a line with status OK, the expected length, the
\* terminator and a valid current-convention field for every channel, the
\* Sample's status is OK and values[i] is the value parsed from field i; in
\* particular a line written from the values vs by the instrument's
\* formatting rules decodes to vs.
C1_ValidFrameDecodes ==
    (LastFramed /\ \A i \in ChannelIds : ValidCurrentField(i)) =>
        /\ ~last_read.raised
        /\ Len(output) = Channels + 2
        /\ Status = "OK"
        /\ \A i \in ChannelIds : Value(i) = FieldNumber(i).val
        /\ \A p \in CurrentLines :
              last_read.ser_line = p[1] =>
                  \A i \in ChannelIds : Value(i) = p[2][i]

\* C1's case: a line written from values of both signs has been read and
\* decoded to them.
C1_Witness ==
    /\ \E vs \in ValueVectors :
          /\ last_read.ser_line = readline(vs, 0)
          /\ vs[0] = 181234
          /\ vs[1] = -55000
    /\ last_read.err = "OK"
    /\ Status = "OK"
    /\ Value(0) = Float(181234, 4)
    /\ Value(1) = Float(-55, 1)

\* The line written with the legacy preambles for each vector of channel
\* values, paired with what readline() returns for the same values written
\* with the current preambles.
LegacyPairs ==
    {<<readline(vs, 1), Received("OK", readline(vs, 0))>> : vs \in ValueVectors}

\* C2: read() of a line written with the legacy preambles C{i+1:02d}= ends
\* with the status, the values and the persisted values that read() of the
\* same channel values written with the current preambles C{i:02d}= gives
\* from the same decoder state.
C2_LegacyDecodesAsCurrent ==
    [][\A p \in LegacyPairs :
          (last_read'.err = "OK" /\ last_read'.ser_line = p[1]) =>
              LET r == Decode(temperature, ResetTmp, p[2])
              IN  /\ ~r.raised
                  /\ ~last_read'.raised
                  /\ output' = MakeOutput(r.err, r.temperature)
                  /\ temperature' = r.temperature]_vars

\* C2's case: a legacy-convention line has been read and decoded with
\* status OK.
C2_Witness ==
    /\ \E vs \in ValueVectors :
          /\ last_read.ser_line = readline(vs, 1)
          /\ \A i \in ChannelIds : Value(i) = Float(vs[i], 4)
    /\ last_read.err = "OK"
    /\ Status = "OK"
    /\ FieldPreamble(0) = Preamble(1)

\* C3: once a stop() call has returned (and until a later start()), no
\* task of the read loop begins a readline() and none calls the sink.
C3_NoStepAfterStop ==
    [][stopped =>
          \A t \in Tasks :
              /\ ~(pc[t] # "reading" /\ pc'[t] = "reading")
              /\ ~(pc[t] # "sink" /\ pc'[t] = "sink")]_vars

\* C4: when stop() has returned the Transport is closed, and it stays closed.
C4_ClosedAfterStop == stopped => ~comport_open

\* C5: no pair readline() returns makes read() raise: no task of the read
\* loop is ever ended by an exception of read().
C5_NoLineEndsLoop == \A t \in Tasks : pc[t] # "failed"

C7_BadFrameAllSentinel ==
    (last_read.err = "OK" /\ ~LastLine.framed) =>
        \A i \in ChannelIds : Value(i) \in {DEFAULT_VAL, Float(99999990, 4)}

\* Field k of the line the last read() got fails the channel's validation:
\* its preamble is of neither convention, or its value text is no number.
FieldFails(k) ==
    /\ HasField(k)
    /\ \/ FieldPreamble(k) \notin {Preamble(k), Preamble(k + 1)}
       \/ ~FieldNumber(k).ok

\* Field j carries a preamble of either convention and a parseable value
\* that is not the sensor-unconnected text.
ValidField(j) ==
    /\ HasField(j)
    /\ FieldPreamble(j) \in {Preamble(j), Preamble(j + 1)}
    /\ FieldNumber(j).ok
    /\ FieldText(j) # SENSOR_UNCONNECTED_VAL

\* C8 as stated: in a correctly framed line, a field for channel k that
\* fails validation leaves channel k's persisted value as it was.
C8_FailedFieldKeepsPersisted ==
    [][\A k \in ChannelIds :
          (LastFramed' /\ FieldFails(k)') => temperature'[k] = temperature[k]]_vars

\* C8 as amended: in a correctly framed line, a field for channel k that
\* fails validation resets channel k's persisted value to the decode-error
\* default 9999.9990 (reads of the decoder not overlapping).
C8_FailedFieldResetsPersisted ==
    \A k \in ChannelIds :
        (LastFramed /\ FieldFails(k)) => temperature[k] = DEFAULT_VAL

\* C8's case: a correctly framed line whose field 1 alone fails has been
\* read; channel 1 holds the default, the other channels their values.
C8_Witness ==
    /\ LastFramed
    /\ ~last_read.raised
    /\ FieldFails(1)
    /\ temperature[1] = DEFAULT_VAL
    /\ Status # "OK"
    /\ \A j \in ChannelIds \ {1} : ValidField(j) /\ temperature[j].kind = "float"

\* C9: in a correctly framed line where the field of some channel k fails
\* validation, the Sample of that read has, for every other channel j with
\* a valid field, the value parsed from field j.
C9_OtherChannelsDecoded ==
    \A k \in ChannelIds : \A j \in ChannelIds \ {k} :
        (LastFramed /\ FieldFails(k) /\ ValidField(j)) =>
            /\ ~last_read.raised
            /\ Value(j) = FieldNumber(j).val

\* C10 as stated: a field whose value text is -201.0000 leaves a parsed
\* value persisted for its channel as it was.
C10_UnconnectedKeepsPersisted ==
    [][\A i \in ChannelIds :
          (/\ LastFramed'
           /\ HasField(i)'
           /\ FieldText(i)' = SENSOR_UNCONNECTED_VAL
           /\ temperature[i].kind = "float") =>
              temperature'[i] = temperature[i]]_vars

\* C10 as amended: in a correctly framed line, a field whose value text is
\* -201.0000 resets its channel's persisted value to the decode-error
\* default 9999.9990 (reads of the decoder not overlapping).
C10_UnconnectedResetsPersisted ==
    \A i \in ChannelIds :
        (LastFramed /\ HasField(i) /\ FieldText(i) = SENSOR_UNCONNECTED_VAL) =>
            temperature[i] = DEFAULT_VAL

\* C10's case: a correctly framed line whose field 0 carries an accepted
\* preamble and -201.0000 has been read; channel 0 holds the default.
C10_Witness ==
    /\ LastFramed
    /\ ~last_read.raised
    /\ FieldPreamble(0) = Preamble(0)
    /\ FieldText(0) = SENSOR_UNCONNECTED_VAL
    /\ temperature[0] = DEFAULT_VAL
    /\ Value(0) = DEFAULT_VAL
    /\ \A j \in ChannelIds \ {0} : temperature[j].kind = "float"

\* C11: the Sample of a read() of a correctly framed line in which the value
\* text of some channel is -201.0000 has an error status, never OK.
C11_UnconnectedReportsError ==
    (/\ LastFramed
     /\ ~last_read.raised
     /\ \E i \in ChannelIds : HasField(i) /\ FieldText(i) = SENSOR_UNCONNECTED_VAL) =>
        Status # "OK"

\* C12: no two constructed SelTemperature objects share a name or a serial
\* device, and no two constructed EssInstrument objects share a name or a
\* reader's serial device: the construction that would bind either a second
\* time raises IndexError and leaves no object.
C12_NoSharedBinding ==
    /\ \A a, b \in 1 .. Len(sel_objects) :
          a # b => /\ sel_objects[a].name # sel_objects[b].name
                   /\ sel_objects[a].comport # sel_objects[b].comport
    /\ \A a, b \in 1 .. Len(ess_objects) :
          a # b => /\ ess_objects[a].name # ess_objects[b].name
                   /\ ess_objects[a].comport # ess_objects[b].comport

\* C13: at most one read() of the Decoder is in progress at any time, and
\* at most one readline() of its Transport.
C13_OneReadAtATime ==
    /\ Cardinality({t \in Tasks : pc[t] = "reading"}) <= 1
    /\ Cardinality(readline_busy) <= 1

\* C14: start() launches a polling task only from the Idle state (never
\* started, never stopped), and a stopped loop never returns to Running.
C14_StartOnlyFromIdle ==
    [][/\ \A t \in Tasks :
             (pc[t] = "none" /\ pc'[t] # "none") =>
                 (telemetry_loop = NoTask /\ ~enabled /\ ~stopped)
       /\ (stopped => ~enabled')]_vars

\* No polling activity is running: every task has ended or has a
\* CancelledError pending.
NoPolling == \A t \in Tasks : pc[t] \in Live => must_cancel[t]

\* C15: a stop() call made when the loop is not Running (before any start(),
\* or after a stop()) raises or does nothing; when it has ended, _enabled,
\* the Transport's open/closed status and the persisted values are what
\* they were when it was called, and no polling activity is running.
C15_StopWhenNotRunning ==
    [][/\ (stop_entry' # stop_entry /\ stop_entry'.raised) =>
              /\ UNCHANGED <<enabled, comport_open, temperature, pc, must_cancel>>
              /\ NoPolling'
       /\ (stop_pc = "closing" /\ stop_pc' = "idle" /\ ~stop_entry.enabled) =>
              /\ enabled' = stop_entry.enabled
              /\ comport_open' = stop_entry.comport_open
              /\ temperature' = stop_entry.temperature
              /\ NoPolling']_vars

\* C16: after every read(), whatever readline() returned, the output list
\* has exactly Channels + 2 entries: the time, the status and one value per
\* channel.
C16_OutputLength ==
    last_read.err # "" =>
        /\ ~last_read.raised
        /\ Len(output) = Channels + 2

\* C17: the Decoder's start() never opens or configures the Transport while
\* the Transport is open: a start() that follows another without a stop()
\* in between fails.
C17_NoSecondOpen ==
    [][\A t \in Tasks : (t \notin started /\ t \in started') => ~comport_open]_vars

\* C18: for every number of channels n >= 1 the expected line size is
\* n * (4 + 9 + 1) - 1 + 2, which is 57 for n = 4; it is fixed: after any
\* sequence of reads, read() reports a wrong length or terminator exactly
\* for the lines that have not that length or not the terminator.
C18_ExpectedLineLength ==
    /\ \A n \in 1 .. MaxChannelCount : read_line_size_for(n) = n * (4 + 9 + 1) - 1 + 2
    /\ read_line_size_for(4) = 57
    /\ (last_read.err = "OK" /\ ~last_read.raised) =>
          (Status = ERR_LINE <=>
              ~(/\ Len(last_read.ser_line) = Channels * (4 + 9 + 1) - 1 + 2
                /\ LastN(last_read.ser_line, 2) = <<CR, LF>>))

\* C18's case: after a read that stored a value in every channel, a line
\* one character short of the expected size, with the terminator, has been
\* read and reported as of wrong size.
C18_Witness ==
    /\ last_read.err = "OK"
    /\ Len(last_read.ser_line) = Channels * (4 + 9 + 1) - 1 + 2 - 1
    /\ LastN(last_read.ser_line, 2) = <<CR, LF>>
    /\ Status = ERR_LINE
    /\ \A i \in ChannelIds : temperature[i].kind = "float"

\* C19: reads and sink invocations alternate, starting with a read: a
\* read() begins only when no other read() is in progress and no sink
\* invocation is waiting to return, and the sink is invoked only by the
\* completion of a read(), once, while no other invocation is in progress.
C19_ReadSinkAlternate ==
    [][\A t \in Tasks :
          /\ (pc[t] # "reading" /\ pc'[t] = "reading") =>
                \A u \in Tasks \ {t} : pc[u] \notin {"reading", "sink"}
          /\ (pc[t] # "sink" /\ pc'[t] = "sink") =>
                /\ pc[t] = "reading"
                /\ ~last_read'.raised
                /\ \A u \in Tasks \ {t} : pc[u] \notin {"reading", "sink"}]_vars

\* C20: no readline() begins before the Decoder's start() has completed: a
\* task begins a read() only after its await of start() has returned, and
\* every read() begins with the Transport open and its line size,
\* terminator, baud rate and read timeout of (channels + 1) channel read
\* times set.
C20_ReadAfterStart ==
    [][\A t \in Tasks :
          (pc[t] # "reading" /\ pc'[t] = "reading") =>
              /\ t \in started'
              /\ comport_open'
              /\ comport_config' = [configured |-> TRUE,
                                    line_size |-> Channels * (4 + 9 + 1) - 1 + 2,
                                    terminator |-> <<CR, LF>>,
                                    baudrate |-> 19200,
                                    read_timeout |-> (Channels + 1) * 167]]_vars

\* C21: after every read() of a line with status OK, the expected length
\* and the terminator, each channel's stored value and the value reported
\* for it are the value parsed from field i of that line or the default
\* 9999.9990, never a value of an earlier line.
C21_ValuesFromLineAlone ==
    LastFramed =>
        /\ ~last_read.raised
        /\ \A i \in ChannelIds :
              /\ temperature[i] = Value(i)
              /\ \/ Value(i) = DEFAULT_VAL
                 \/ HasField(i) /\ FieldNumber(i).ok /\ Value(i) = FieldNumber(i).val

=============================================================================
